---------------------------- MODULE Spec2Model ----------------------------
(***************************************************************************)
(* Vibe_Chart backend (src/backend/app.py): column type inference, the     *)
(* chart type registry, the compatibility matcher, the render routine and  *)
(* the three Flask handlers that share the process-wide current dataset.   *)
(***************************************************************************)
EXTENDS Integers, Sequences, FiniteSets, TLC

VARIABLES
    current_df,                 \* app.py:38  global DataFrame (or None)
    current_columns_metadata,   \* app.py:39  global column metadata (or None)
    pc,                         \* position of each worker thread in its handler
    frame,                      \* locals of the handler each worker thread runs
    resp,                       \* response each worker thread is about to send
    ever_ok,                    \* history: some upload has answered 200
    series_in,                  \* argument of a direct infer_column_type call
    infer_out,                  \* its outcome
    chart_in,                   \* chart_type of a direct matcher call
    cols_in,                    \* columns_meta of a direct matcher call
    match_out,                  \* its result
    match_prev,                 \* result on the column list before the last added column
    open_figures                \* number of pyplot figures open in the process

vars == << current_df, current_columns_metadata, pc, frame, resp, ever_ok,
           series_in, infer_out, chart_in, cols_in, match_out, match_prev,
           open_figures >>

\* the variables of the direct calls of the two pure functions
pureVars == << series_in, infer_out, chart_in, cols_in, match_out, match_prev >>

\* the variables of the server
serverVars == << current_df, current_columns_metadata, pc, frame, resp, ever_ok,
                 open_figures >>

-----------------------------------------------------------------------------
(* Bounds of the model.                                                    *)

\* longest series handed to infer_column_type directly
MaxRows == 21
\* longest column list handed to the matcher directly
MaxCols == 3
\* most figures left open before the process stops taking render calls
\* that would leave another one
MaxOpenFigures == 2

-----------------------------------------------------------------------------
(* Python values.                                                          *)

\* None / JSON null where a string is expected
None == "None"

\* `if not v` / `if v` on an optional string: None and '' are falsy
Truthy(v) == v # None /\ v # ""

Min(a, b) == IF a <= b THEN a ELSE b

-----------------------------------------------------------------------------
(* A pandas Series as far as the program looks at it: its dtype, len(),    *)
(* the number of non-missing values, nunique() (distinct non-missing       *)
(* values) and whether its values are JSON serialisable.                   *)

MkSeries(name, dtype, len, nonnull, nunique, jsonable) ==
    [name |-> name, dtype |-> dtype, len |-> len, nonnull |-> nonnull,
     nunique |-> nunique, jsonable |-> jsonable]

\* pd.api.types.is_numeric_dtype(series)
is_numeric_dtype(series) == series.dtype = "numeric"

\* unique_ratio < 0.05 with unique_ratio = series.nunique() / len(series):
\* the float quotient is below 0.05 exactly when 20 * nunique < len
UniqueRatioBelowThreshold(series) == 20 * series.nunique < series.len

\* nunique() < 10
FewUniqueValues(series) == series.nunique < 10

\* infer_column_type: 'numeric', 'categorical', or the ZeroDivisionError the
\* quotient raises on a numeric series of length 0
infer_column_type(series) ==
    IF is_numeric_dtype(series)
    THEN IF series.len = 0
         THEN "ZeroDivisionError"
         ELSE IF UniqueRatioBelowThreshold(series) /\ FewUniqueValues(series)
              THEN "categorical"
              ELSE "numeric"
    ELSE "categorical"

-----------------------------------------------------------------------------
(* Column metadata.                                                        *)

\* one entry of the list analyze_dataframe builds
ColumnMeta(name, type, sample_values) ==
    [name |-> name, type |-> type, sample_values |-> sample_values]

\* df[col].dropna().head(3).tolist(): how many values, and whether they are
\* JSON serialisable
SampleValues(series) ==
    [count |-> Min(3, series.nonnull),
     jsonable |-> (series.nonnull = 0 \/ series.jsonable)]

RECURSIVE analyze_columns(_)
\* the loop of analyze_dataframe over df.columns: the list built so far, or
\* raised as soon as infer_column_type raises
analyze_columns(columns) ==
    IF columns = << >>
    THEN [raised |-> FALSE, meta |-> << >>]
    ELSE LET col_type == infer_column_type(Head(columns))
             rest == analyze_columns(Tail(columns))
         IN  IF col_type = "ZeroDivisionError" \/ rest.raised
             THEN [raised |-> TRUE, meta |-> << >>]
             ELSE [raised |-> FALSE,
                   meta |-> << ColumnMeta(Head(columns).name, col_type,
                                          SampleValues(Head(columns))) >> \o rest.meta]

-----------------------------------------------------------------------------
(* Chart type registry.                                                    *)

\* the ids get_chart_types_info lists, in its order
get_chart_types_info ==
    << "bar", "line", "scatter", "histogram", "boxplot",
       "heatmap", "pie", "violin", "area", "stacked_bar" >>

ChartTypeIds == { get_chart_types_info[i] : i \in 1..Len(get_chart_types_info) }

-----------------------------------------------------------------------------
(* Compatibility matcher.                                                  *)

RECURSIVE NamesOfType(_, _)
\* [c['name'] for c in columns_meta if c['type'] == type]
NamesOfType(columns_meta, type) ==
    IF columns_meta = << >>
    THEN << >>
    ELSE IF Head(columns_meta).type = type
         THEN << Head(columns_meta).name >> \o NamesOfType(Tail(columns_meta), type)
         ELSE NamesOfType(Tail(columns_meta), type)

numeric_cols(columns_meta) == NamesOfType(columns_meta, "numeric")

categorical_cols(columns_meta) == NamesOfType(columns_meta, "categorical")

\* suggestions = {'x_column': None, 'y_column': None, 'group_column': None}
NoSuggestions == [x_column |-> None, y_column |-> None, group_column |-> None]

MatchResult(compatible, reason, suggestions) ==
    [compatible |-> compatible, reason |-> reason, suggestions |-> suggestions]

\* Python indexes from 0: cols[0] is the first element
At(cols, i) == cols[i + 1]

\* CompatBar with the two pools taken for the wrong axes
CompatBarSwapped(num, cat) ==
    IF Len(cat) >= 1 /\ Len(num) >= 1
    THEN MatchResult(TRUE, "Found categorical + numeric columns",
             [NoSuggestions EXCEPT !.x_column = At(num, 0), !.y_column = At(cat, 0)])
    ELSE MatchResult(FALSE, "Bar chart requires 1 categorical and 1 numeric column",
             NoSuggestions)

CompatBar(num, cat) ==
    IF Len(cat) >= 1 /\ Len(num) >= 1
    THEN MatchResult(TRUE, "Found categorical + numeric columns",
             [NoSuggestions EXCEPT !.x_column = At(cat, 0), !.y_column = At(num, 0)])
    ELSE MatchResult(FALSE, "Bar chart requires 1 categorical and 1 numeric column",
             NoSuggestions)

CompatLine(num, cat) ==
    IF Len(num) >= 1
    THEN MatchResult(TRUE, "Found columns for line chart",
             [NoSuggestions EXCEPT
                 !.x_column = IF cat # << >> THEN At(cat, 0) ELSE "index",
                 !.y_column = At(num, 0)])
    ELSE MatchResult(FALSE, "Line chart requires at least 1 numeric column",
             NoSuggestions)

\* CompatScatter with > written for >=
CompatScatterStrict(num, cat) ==
    IF Len(num) > 2
    THEN MatchResult(TRUE, "Found 2 numeric columns",
             [NoSuggestions EXCEPT !.x_column = At(num, 0), !.y_column = At(num, 1)])
    ELSE MatchResult(FALSE, "Scatter plot requires 2 numeric columns", NoSuggestions)

CompatScatter(num, cat) ==
    IF Len(num) >= 2
    THEN MatchResult(TRUE, "Found 2 numeric columns",
             [NoSuggestions EXCEPT !.x_column = At(num, 0), !.y_column = At(num, 1)])
    ELSE MatchResult(FALSE, "Scatter plot requires 2 numeric columns", NoSuggestions)

\* CompatHistogram with == written for >=
CompatHistogramExact(num, cat) ==
    IF Len(num) = 1
    THEN MatchResult(TRUE, "Found numeric column",
             [NoSuggestions EXCEPT !.x_column = At(num, 0)])
    ELSE MatchResult(FALSE, "Histogram requires 1 numeric column", NoSuggestions)

CompatHistogram(num, cat) ==
    IF Len(num) >= 1
    THEN MatchResult(TRUE, "Found numeric column",
             [NoSuggestions EXCEPT !.x_column = At(num, 0)])
    ELSE MatchResult(FALSE, "Histogram requires 1 numeric column", NoSuggestions)

CompatBoxplot(num, cat) ==
    IF Len(num) >= 1
    THEN MatchResult(TRUE, "Found numeric column for boxplot",
             [NoSuggestions EXCEPT
                 !.y_column = At(num, 0),
                 !.group_column = IF cat # << >> THEN At(cat, 0) ELSE None])
    ELSE MatchResult(FALSE, "Boxplot requires 1 numeric column", NoSuggestions)

\* CompatHeatmap with index 0 written for both categorical axes
CompatHeatmapReuse(num, cat) ==
    IF Len(cat) >= 2 /\ Len(num) >= 1
    THEN MatchResult(TRUE, "Found 2 categorical + 1 numeric",
             [NoSuggestions EXCEPT
                 !.x_column = At(cat, 0),
                 !.y_column = At(cat, 0),
                 !.group_column = At(num, 0)])
    ELSE MatchResult(FALSE, "Heatmap requires 2 categorical and 1 numeric column",
             NoSuggestions)

CompatHeatmap(num, cat) ==
    IF Len(cat) >= 2 /\ Len(num) >= 1
    THEN MatchResult(TRUE, "Found 2 categorical + 1 numeric",
             [NoSuggestions EXCEPT
                 !.x_column = At(cat, 0),
                 !.y_column = At(cat, 1),
                 !.group_column = At(num, 0)])
    ELSE MatchResult(FALSE, "Heatmap requires 2 categorical and 1 numeric column",
             NoSuggestions)

CompatPie(num, cat) ==
    IF Len(cat) >= 1 /\ Len(num) >= 1
    THEN MatchResult(TRUE, "Found categorical + numeric columns",
             [NoSuggestions EXCEPT !.x_column = At(cat, 0), !.y_column = At(num, 0)])
    ELSE MatchResult(FALSE, "Pie chart requires 1 categorical and 1 numeric column",
             NoSuggestions)

CompatViolin(num, cat) ==
    IF Len(num) >= 1
    THEN MatchResult(TRUE, "Found numeric column for violin plot",
             [NoSuggestions EXCEPT
                 !.y_column = At(num, 0),
                 !.group_column = IF cat # << >> THEN At(cat, 0) ELSE None])
    ELSE MatchResult(FALSE, "Violin plot requires 1 numeric column", NoSuggestions)

CompatArea(num, cat) ==
    IF Len(num) >= 1
    THEN MatchResult(TRUE, "Found columns for area chart",
             [NoSuggestions EXCEPT
                 !.x_column = IF cat # << >> THEN At(cat, 0) ELSE "index",
                 !.y_column = At(num, 0)])
    ELSE MatchResult(FALSE, "Area chart requires at least 1 numeric column",
             NoSuggestions)

CompatStackedBar(num, cat) ==
    IF Len(cat) >= 2 /\ Len(num) >= 1
    THEN MatchResult(TRUE, "Found 2 categorical + 1 numeric",
             [NoSuggestions EXCEPT
                 !.x_column = At(cat, 0),
                 !.group_column = At(cat, 1),
                 !.y_column = At(num, 0)])
    ELSE MatchResult(FALSE, "Stacked bar requires 2 categorical and 1 numeric column",
             NoSuggestions)

\* the if/elif chain of check_chart_compatibility
check_chart_compatibility(chart_type, columns_meta) ==
    LET num == numeric_cols(columns_meta)
        cat == categorical_cols(columns_meta)
    IN  CASE chart_type = "bar"         -> CompatBar(num, cat)
          [] chart_type = "line"        -> CompatLine(num, cat)
          [] chart_type = "scatter"     -> CompatScatter(num, cat)
          [] chart_type = "histogram"   -> CompatHistogram(num, cat)
          [] chart_type = "boxplot"     -> CompatBoxplot(num, cat)
          [] chart_type = "heatmap"     -> CompatHeatmap(num, cat)
          [] chart_type = "pie"         -> CompatPie(num, cat)
          [] chart_type = "violin"      -> CompatViolin(num, cat)
          [] chart_type = "area"        -> CompatArea(num, cat)
          [] chart_type = "stacked_bar" -> CompatStackedBar(num, cat)
          [] OTHER -> MatchResult(FALSE, "Unknown chart type", NoSuggestions)

-----------------------------------------------------------------------------
(* DataFrames and the two globals.                                         *)

\* current_df = None (app.py:38)
NoneDF == [is_none |-> TRUE, columns |-> << >>]

\* a DataFrame: its columns, in order
DataFrame(columns) == [is_none |-> FALSE, columns |-> columns]

\* current_columns_metadata = None (app.py:39)
NoneMeta == [is_none |-> TRUE, cols |-> << >>]

Metadata(cols) == [is_none |-> FALSE, cols |-> cols]

\* df.columns, as the set `name in df.columns` tests
ColumnNames(df) == { df.columns[i].name : i \in 1..Len(df.columns) }

analyze_dataframe(df) == analyze_columns(df.columns)

-----------------------------------------------------------------------------
(* Uploaded files.                                                         *)

ALLOWED_DATA_EXTENSIONS == {"csv", "xlsx", "xls"}

\* str.lower() on the extensions that occur
Lower(ext) == IF ext = "CSV" THEN "csv" ELSE ext

\* a file name `stem.ext`; ext = None when the name holds no '.'
FileName(stem, ext) == [stem |-> stem, ext |-> ext]

\* '.' in filename and filename.rsplit('.', 1)[1].lower() in allowed_extensions
allowed_file(filename, allowed_extensions) ==
    filename.ext # None /\ Lower(filename.ext) \in allowed_extensions

\* werkzeug's secure_filename strips leading dots: '.csv' becomes 'csv',
\* a name with no '.' left
secure_filename(filename) ==
    IF filename.stem = "" /\ filename.ext # None
    THEN FileName(filename.ext, None)
    ELSE filename

\* the columns of the data sets that are uploaded, each over `rows` rows
Category(rows) == MkSeries("Category", "object", rows, rows, 3, TRUE)
Value(rows)    == MkSeries("Value", "numeric", rows, rows, rows, TRUE)
\* a measurement with one value missing
Score(rows)    == MkSeries("Score", "numeric", rows, rows - 1, rows - 1, TRUE)
\* an integer class code: one distinct value over all rows
Segment(rows)  == MkSeries("Segment", "numeric", rows, rows, 1, TRUE)
\* an Excel time-of-day column: read_excel keeps datetime.time objects,
\* which jsonify cannot serialise
Shift(rows)    == MkSeries("Shift", "object", rows, rows, 2, FALSE)

\* what the bytes of an upload hold
FileContent(format, columns) == [format |-> format, columns |-> columns]

FileContents ==
    { FileContent("garbage", << >>),
      FileContent("csv", << Category(3), Value(3) >>),
      FileContent("csv", << Value(3), Score(3) >>),
      FileContent("csv", << Category(40), Segment(40), Value(40) >>),
      FileContent("excel", << Shift(3), Value(3) >>) }

FileNames ==
    { FileName("", None), FileName("notes", "txt"), FileName("", "csv"),
      FileName("data", "csv"), FileName("DATA", "CSV"), FileName("book", "xlsx") }

\* request.files of an upload request
UploadRequest(has_file, filename, content) ==
    [has_file |-> has_file, filename |-> filename, content |-> content]

NoUpload == UploadRequest(FALSE, FileName("", None), FileContent("garbage", << >>))

UploadRequests ==
    { NoUpload } \cup
    { UploadRequest(TRUE, n, c) : n \in FileNames, c \in FileContents }

\* pd.read_csv / pd.read_excel on the uploaded bytes: a DataFrame, or raised
read_file(file_ext, content) ==
    IF file_ext = "csv"
    THEN IF content.format = "csv"
         THEN [raised |-> FALSE, df |-> DataFrame(content.columns)]
         ELSE [raised |-> TRUE, df |-> NoneDF]
    ELSE IF file_ext \in {"xlsx", "xls"} /\ content.format = "excel"
         THEN [raised |-> FALSE, df |-> DataFrame(content.columns)]
         ELSE [raised |-> TRUE, df |-> NoneDF]

-----------------------------------------------------------------------------
(* Responses.                                                              *)

\* jsonify(...) with its status; unhandled marks an exception that left the
\* handler
Response(status, success, error, image_base64) ==
    [status |-> status, success |-> success, error |-> error,
     image_base64 |-> image_base64, unhandled |-> FALSE]

UnhandledException ==
    [status |-> 500, success |-> FALSE, error |-> None,
     image_base64 |-> None, unhandled |-> TRUE]

NoResponse == Response(0, FALSE, None, None)

\* jsonify of the upload answer raises TypeError on a value json cannot encode
Jsonable(meta) == \A i \in 1..Len(meta.cols) : meta.cols[i].sample_values.jsonable

-----------------------------------------------------------------------------
(* Render routine.                                                         *)

\* keys looked up with df[key] or groupby(key): KeyError or TypeError unless
\* the key is a column
StrictKeys(chart_type, x_col, y_col, group_col) ==
    CASE chart_type = "bar"       -> {x_col, y_col}
      [] chart_type = "line"      -> IF x_col = "index" THEN {y_col} ELSE {x_col, y_col}
      [] chart_type = "scatter"   -> {x_col, y_col}
      [] chart_type = "histogram" -> {x_col}
      [] chart_type = "boxplot"   -> IF Truthy(group_col) THEN {group_col} ELSE {y_col}
      [] chart_type = "pie"       -> {x_col, y_col}
      [] chart_type = "violin"    -> IF Truthy(group_col) THEN {group_col} ELSE {y_col}
      [] chart_type = "area"      -> {y_col}
      [] OTHER -> {}

\* keys handed to pivot_table, DataFrame.boxplot or seaborn, where None means
\* "not given" and any other value must be a column
NamedKeys(chart_type, x_col, y_col, group_col) ==
    CASE chart_type = "boxplot"     -> IF Truthy(group_col) THEN {y_col} ELSE {}
      [] chart_type = "heatmap"     -> {x_col, y_col, group_col}
      [] chart_type = "violin"      -> IF Truthy(group_col) THEN {y_col} ELSE {}
      [] chart_type = "stacked_bar" -> {x_col, y_col, group_col}
      [] OTHER -> {}

\* the drawing code certainly raises: a key it looks up is no column of df
MissingKey(chart_type, df, x_col, y_col, group_col) ==
    \/ \E k \in StrictKeys(chart_type, x_col, y_col, group_col) :
           k \notin ColumnNames(df)
    \/ \E k \in NamedKeys(chart_type, x_col, y_col, group_col) :
           k # None /\ k \notin ColumnNames(df)

\* app.py:270 and 315: DataFrame.boxplot(by=...) and DataFrame.plot(...) are
\* handed no axes, so pandas opens a figure of its own, which becomes the
\* current figure of pyplot
OpensOwnFigure(chart_type, group_col) ==
    \/ chart_type = "boxplot" /\ Truthy(group_col)
    \/ chart_type = "stacked_bar"

\* the drawing code raises on a missing key before pandas opens its figure:
\* DataFrame.boxplot groups by `by` first, and pivot_table (app.py:314)
\* runs before pivot.plot
RaisesBeforeOwnFigure(chart_type, df, x_col, y_col, group_col) ==
    CASE chart_type = "boxplot"     -> group_col \notin ColumnNames(df)
      [] chart_type = "stacked_bar" -> MissingKey(chart_type, df, x_col, y_col, group_col)
      [] OTHER -> FALSE

\* what one call does: its result, the figures it opened and the figures it
\* closed
RenderOutcome(result, opened, closed) ==
    [result |-> result, opened |-> opened, closed |-> closed]

\* app.py:232-233: plt.figure opens a figure, then plt.style.use raises
\* (the style name is unknown to the installed matplotlib) outside the try
\* block, so neither plt.close() is reached
StyleSetupFailure == RenderOutcome("raise", 1, 0)

\* app.py:235-337: the try block.  plt.close() (app.py:331 and 336) closes
\* the current figure only: the one pandas opened when it opened one
DrawOutcomes(chart_type, df, x_col, y_col, group_col) ==
    LET own == OpensOwnFigure(chart_type, group_col)
        early == RenderOutcome("raise", 1, 1)
        late == RenderOutcome("raise", 2, 1)
    IN  IF MissingKey(chart_type, df, x_col, y_col, group_col)
        THEN IF own /\ ~RaisesBeforeOwnFigure(chart_type, df, x_col, y_col, group_col)
             THEN {late}
             ELSE {early}
        ELSE IF own
             THEN {RenderOutcome("image", 2, 1), early, late}
             ELSE {RenderOutcome("image", 1, 1), early}

\* generate_chart_matplotlib: the data URL, or the exception it raises.  With
\* every key present the style setup, the drawing calls and savefig may
\* still raise, depending on the installed libraries and the values plotted.
generate_chart_matplotlib(chart_type, df, x_col, y_col, group_col) ==
    {StyleSetupFailure} \cup DrawOutcomes(chart_type, df, x_col, y_col, group_col)

-----------------------------------------------------------------------------
(* Worker threads and the locals of the handler each one runs.             *)

\* app.run(debug=True, ...) at app.py:593 serves each request on its own
\* thread; two requests at a time are modelled
Threads == {"w1", "w2"}

\* request.get_json() of /api/generate-chart and /api/check-compatibility
ChartRequest(chart_type, x_column, y_column, group_column) ==
    [chart_type |-> chart_type, x_column |-> x_column,
     y_column |-> y_column, group_column |-> group_column]

ChartTypeInputs == ChartTypeIds \cup {"unknown_type", None}

\* every binding over the names below: what a caller may write by hand
AllChartRequests ==
    { ChartRequest(c, x, y, g) :
        c \in ChartTypeInputs,
        x \in {None, "", "index", "Category", "Value", "Ghost"},
        y \in {None, "Category", "Value", "Score", "Segment"},
        g \in {None, "Category", "Segment", "Value", "Ghost"} }

\* the locals of a handler, with the history the properties read:
\*   pre_df, pre_meta   the globals when the handler was entered
\*   matcher_called     check_chart_compatibility was entered
\*   renderer_called    generate_chart_matplotlib was entered
\*   seen_meta          the metadata handed to the matcher
\*   checked_dfs        the DataFrames the column checks read
\*   render_df          the DataFrame handed to the render routine
NoFrame ==
    [handler |-> "none", content |-> FileContent("garbage", << >>), file_ext |-> None,
     arg_df |-> NoneDF, request |-> ChartRequest(None, None, None, None),
     pre_df |-> NoneDF, pre_meta |-> NoneMeta,
     matcher_called |-> FALSE, renderer_called |-> FALSE,
     seen_meta |-> NoneMeta, checked_dfs |-> {}, render_df |-> NoneDF]

\* the handlers that only read the two globals
Readers == {"generate_chart", "check_compatibility"}

\* a handler is entered by an idle thread.  With serial the server takes one
\* request at a time; without, at most one reading handler runs at a time
\* (two readers share nothing that either writes).
MayStart(t, serial, handler) ==
    /\ pc[t] = "idle"
    /\ \A u \in Threads \ {t} :
           IF serial
           THEN pc[u] = "idle"
           ELSE handler \in Readers => frame[u].handler \notin Readers

\* the locals at entry; the globals at entry are kept as history when the
\* server takes one request at a time
Enter(handler, serial) ==
    IF serial
    THEN [NoFrame EXCEPT !.handler = handler, !.pre_df = current_df,
                         !.pre_meta = current_columns_metadata]
    ELSE [NoFrame EXCEPT !.handler = handler]

\* return jsonify(...), status
Reply(t, response) ==
    /\ pc' = [pc EXCEPT ![t] = "done"]
    /\ resp' = [resp EXCEPT ![t] = response]

Goto(t, label) ==
    /\ pc' = [pc EXCEPT ![t] = label]
    /\ resp' = resp

-----------------------------------------------------------------------------
(* POST /api/upload-data                                                   *)

\* app.py:353-366: the checks on request.files, then secure_filename and
\* file_ext inside the try block
UploadCall(t, serial, uploads) ==
    /\ MayStart(t, serial, "upload_data")
    /\ \E r \in uploads :
         LET f == [Enter("upload_data", serial) EXCEPT !.content = r.content]
             filename == secure_filename(r.filename)
         IN  IF ~r.has_file
             THEN /\ frame' = [frame EXCEPT ![t] = f]
                  /\ Reply(t, Response(400, FALSE, "No file provided", None))
             ELSE IF r.filename = FileName("", None)
             THEN /\ frame' = [frame EXCEPT ![t] = f]
                  /\ Reply(t, Response(400, FALSE, "No file selected", None))
             ELSE IF ~allowed_file(r.filename, ALLOWED_DATA_EXTENSIONS)
             THEN /\ frame' = [frame EXCEPT ![t] = f]
                  /\ Reply(t, Response(400, FALSE, "Invalid file type", None))
             ELSE IF filename.ext = None
             \* filename.rsplit('.', 1)[1] raises IndexError, caught at 385
             THEN /\ frame' = [frame EXCEPT ![t] = f]
                  /\ Reply(t, Response(500, FALSE, "Error parsing file", None))
             ELSE /\ frame' = [frame EXCEPT ![t] = [f EXCEPT !.file_ext = Lower(filename.ext)]]
                  /\ Goto(t, "u_read")
    /\ UNCHANGED << current_df, current_columns_metadata, ever_ok, open_figures, pureVars >>

\* app.py:369-372: current_df = pd.read_csv(file) / pd.read_excel(file)
UploadRead(t) ==
    /\ pc[t] = "u_read"
    /\ LET r == read_file(frame[t].file_ext, frame[t].content)
       IN  IF r.raised
           THEN /\ current_df' = current_df
                /\ Reply(t, Response(500, FALSE, "Error parsing file", None))
           ELSE /\ current_df' = r.df
                /\ Goto(t, "u_analyze")
    /\ UNCHANGED << current_columns_metadata, frame, ever_ok, open_figures, pureVars >>

\* app.py:375, the argument: analyze_dataframe(current_df) loads the global
UploadAnalyze(t) ==
    /\ pc[t] = "u_analyze"
    /\ frame' = [frame EXCEPT ![t].arg_df = current_df]
    /\ Goto(t, "u_store")
    /\ UNCHANGED << current_df, current_columns_metadata, ever_ok, open_figures, pureVars >>

\* app.py:375, the call and the store: current_columns_metadata = ...
UploadStore(t) ==
    /\ pc[t] = "u_store"
    /\ LET a == analyze_dataframe(frame[t].arg_df)
       IN  IF a.raised
           THEN /\ current_columns_metadata' = current_columns_metadata
                /\ Reply(t, Response(500, FALSE, "Error parsing file", None))
           ELSE /\ current_columns_metadata' = Metadata(a.meta)
                /\ Goto(t, "u_respond")
    /\ UNCHANGED << current_df, frame, ever_ok, open_figures, pureVars >>

\* app.py:377-386: jsonify of the answer, inside the try block
UploadRespond(t) ==
    /\ pc[t] = "u_respond"
    /\ IF Jsonable(current_columns_metadata)
       THEN /\ Reply(t, Response(200, TRUE, None, None))
            /\ ever_ok' = TRUE
       ELSE /\ Reply(t, Response(500, FALSE, "Error parsing file", None))
            /\ ever_ok' = ever_ok
    /\ UNCHANGED << current_df, current_columns_metadata, frame, open_figures, pureVars >>

-----------------------------------------------------------------------------
(* POST /api/generate-chart                                                *)

\* RenderReply without the except clause: the exception leaves the handler
RenderReplyNoExcept(outcome) ==
    IF outcome.result = "image"
    THEN Response(200, TRUE, None, "data:image/png;base64")
    ELSE UnhandledException

\* app.py:441-456: the try block around the render call; the except clause
\* turns whatever the routine raises into the 500 answer
RenderReply(outcome) ==
    IF outcome.result = "image"
    THEN Response(200, TRUE, None, "data:image/png;base64")
    ELSE Response(500, FALSE, "Error generating chart", None)

\* app.py:434-439: `if col and ... col not in current_df.columns`
ColumnMissing(col, df) == Truthy(col) /\ col \notin ColumnNames(df)

\* app.py:434: the x column, which may also be the literal 'index'
XColumnMissing(col, df) == col # "index" /\ ColumnMissing(col, df)

\* app.py:408-421: the dataset check, then the request body
GenerateCall(t, serial, requests) ==
    /\ MayStart(t, serial, "generate_chart")
    /\ \E r \in requests :
         LET f == [Enter("generate_chart", serial) EXCEPT !.request = r]
         IN  /\ frame' = [frame EXCEPT ![t] = f]
             /\ IF current_df.is_none
                THEN Reply(t, Response(400, FALSE, "No dataset loaded", None))
                ELSE IF ~Truthy(r.chart_type)
                THEN Reply(t, Response(400, FALSE, "chart_type is required", None))
                ELSE Goto(t, "g_match")
    /\ UNCHANGED << current_df, current_columns_metadata, ever_ok, open_figures, pureVars >>

\* app.py:424-431: the matcher on the global metadata; iterating None raises
\* TypeError outside any try block
GenerateMatch(t) ==
    /\ pc[t] = "g_match"
    /\ frame' = [frame EXCEPT ![t].matcher_called = TRUE,
                              ![t].seen_meta = current_columns_metadata]
    /\ IF current_columns_metadata.is_none
       THEN Reply(t, UnhandledException)
       ELSE IF ~check_chart_compatibility(frame[t].request.chart_type,
                                          current_columns_metadata.cols).compatible
       THEN Reply(t, Response(400, FALSE, None, None))
       ELSE Goto(t, "g_check_x")
    /\ UNCHANGED << current_df, current_columns_metadata, ever_ok, open_figures, pureVars >>

\* app.py:434-435
GenerateCheckX(t) ==
    /\ pc[t] = "g_check_x"
    /\ LET col == frame[t].request.x_column
       IN  /\ frame' = [frame EXCEPT ![t].checked_dfs =
                           IF Truthy(col) /\ col # "index" THEN @ \cup {current_df} ELSE @]
           /\ IF XColumnMissing(col, current_df)
              THEN Reply(t, Response(400, FALSE, "Column not found", None))
              ELSE Goto(t, "g_check_y")
    /\ UNCHANGED << current_df, current_columns_metadata, ever_ok, open_figures, pureVars >>

\* app.py:436-437
GenerateCheckY(t) ==
    /\ pc[t] = "g_check_y"
    /\ LET col == frame[t].request.y_column
       IN  /\ frame' = [frame EXCEPT ![t].checked_dfs =
                           IF Truthy(col) THEN @ \cup {current_df} ELSE @]
           /\ IF ColumnMissing(col, current_df)
              THEN Reply(t, Response(400, FALSE, "Column not found", None))
              ELSE Goto(t, "g_check_group")
    /\ UNCHANGED << current_df, current_columns_metadata, ever_ok, open_figures, pureVars >>

\* app.py:438-439
GenerateCheckGroup(t) ==
    /\ pc[t] = "g_check_group"
    /\ LET col == frame[t].request.group_column
       IN  /\ frame' = [frame EXCEPT ![t].checked_dfs =
                           IF Truthy(col) THEN @ \cup {current_df} ELSE @]
           /\ IF ColumnMissing(col, current_df)
              THEN Reply(t, Response(400, FALSE, "Column not found", None))
              ELSE Goto(t, "g_render")
    /\ UNCHANGED << current_df, current_columns_metadata, ever_ok, open_figures, pureVars >>

\* app.py:441-456: the render call on the global DataFrame, and the answer.
\* The figures the call leaves open stay open in the process.
GenerateRender(t) ==
    /\ pc[t] = "g_render"
    /\ frame' = [frame EXCEPT ![t].renderer_called = TRUE,
                              ![t].render_df = current_df]
    /\ \E outcome \in generate_chart_matplotlib(frame[t].request.chart_type,
                          current_df, frame[t].request.x_column,
                          frame[t].request.y_column, frame[t].request.group_column) :
         /\ open_figures + outcome.opened - outcome.closed <= MaxOpenFigures
         /\ open_figures' = open_figures + outcome.opened - outcome.closed
         /\ Reply(t, RenderReply(outcome))
    /\ UNCHANGED << current_df, current_columns_metadata, ever_ok, pureVars >>

-----------------------------------------------------------------------------
(* POST /api/check-compatibility                                           *)

\* app.py:467-477
CheckCall(t, serial) ==
    /\ MayStart(t, serial, "check_compatibility")
    /\ \E c \in ChartTypeInputs :
         LET f == [Enter("check_compatibility", serial) EXCEPT
                      !.request = ChartRequest(c, None, None, None)]
         IN  /\ frame' = [frame EXCEPT ![t] = f]
             /\ IF current_df.is_none
                THEN Reply(t, Response(400, FALSE, "No dataset loaded", None))
                ELSE IF ~Truthy(c)
                THEN Reply(t, Response(400, FALSE, "chart_type is required", None))
                ELSE Goto(t, "c_match")
    /\ UNCHANGED << current_df, current_columns_metadata, ever_ok, open_figures, pureVars >>

\* app.py:479-487
CheckMatch(t) ==
    /\ pc[t] = "c_match"
    /\ frame' = [frame EXCEPT ![t].matcher_called = TRUE,
                              ![t].seen_meta = current_columns_metadata]
    /\ IF current_columns_metadata.is_none
       THEN Reply(t, UnhandledException)
       ELSE Reply(t, Response(200, TRUE, None, None))
    /\ UNCHANGED << current_df, current_columns_metadata, ever_ok, open_figures, pureVars >>

\* the answer is sent and the thread is free for the next request
Return(t) ==
    /\ pc[t] = "done"
    /\ pc' = [pc EXCEPT ![t] = "idle"]
    /\ frame' = [frame EXCEPT ![t] = NoFrame]
    /\ resp' = [resp EXCEPT ![t] = NoResponse]
    /\ UNCHANGED << current_df, current_columns_metadata, ever_ok, open_figures, pureVars >>

-----------------------------------------------------------------------------
(* The server, one request at a time.                                      *)

NoMatch == MatchResult(FALSE, "not called", NoSuggestions)

Init ==
    /\ current_df = NoneDF
    /\ current_columns_metadata = NoneMeta
    /\ pc = [t \in Threads |-> "idle"]
    /\ frame = [t \in Threads |-> NoFrame]
    /\ resp = [t \in Threads |-> NoResponse]
    /\ ever_ok = FALSE
    /\ series_in = MkSeries("", "object", 0, 0, 0, TRUE)
    /\ infer_out = None
    /\ chart_in = None
    /\ cols_in = << >>
    /\ match_out = NoMatch
    /\ match_prev = NoMatch
    /\ open_figures = 0

Next ==
    \E t \in Threads :
        \/ UploadCall(t, TRUE, UploadRequests)
        \/ UploadRead(t)
        \/ UploadAnalyze(t)
        \/ UploadStore(t)
        \/ UploadRespond(t)
        \/ GenerateCall(t, TRUE, AllChartRequests)
        \/ GenerateMatch(t)
        \/ GenerateCheckX(t)
        \/ GenerateCheckY(t)
        \/ GenerateCheckGroup(t)
        \/ GenerateRender(t)
        \/ CheckCall(t, TRUE)
        \/ CheckMatch(t)
        \/ Return(t)

Spec == Init /\ [][Next]_vars

-----------------------------------------------------------------------------
(* The server with two requests in flight, their steps interleaved.        *)

\* the uploads of the interleaved runs: two well-formed CSV files
ConcUploadRequests ==
    { r \in UploadRequests :
        /\ r.has_file
        /\ r.filename = FileName("data", "csv")
        /\ r.content.format = "csv"
        /\ Len(r.content.columns) = 2 }

\* the request of a client that asked /api/check-compatibility for chart
\* type c while df was loaded and sends the suggested columns back
SuggestedRequest(c, df) ==
    LET m == check_chart_compatibility(c, analyze_dataframe(df).meta)
    IN  ChartRequest(c, m.suggestions.x_column, m.suggestions.y_column,
                     m.suggestions.group_column)

SuggestedChartRequests ==
    { SuggestedRequest(q[1], q[2]) :
        q \in { p \in ChartTypeIds \X { DataFrame(r.content.columns) : r \in ConcUploadRequests } :
                  check_chart_compatibility(p[1], analyze_dataframe(p[2]).meta).compatible } }

NextConc ==
    \E t \in Threads :
        \/ UploadCall(t, FALSE, ConcUploadRequests)
        \/ UploadRead(t)
        \/ UploadAnalyze(t)
        \/ UploadStore(t)
        \/ UploadRespond(t)
        \/ GenerateCall(t, FALSE, SuggestedChartRequests)
        \/ GenerateMatch(t)
        \/ GenerateCheckX(t)
        \/ GenerateCheckY(t)
        \/ GenerateCheckGroup(t)
        \/ GenerateRender(t)
        \/ CheckCall(t, FALSE)
        \/ CheckMatch(t)
        \/ Return(t)

SpecConc == Init /\ [][NextConc]_vars

-----------------------------------------------------------------------------
(* infer_column_type called directly, on every series of at most MaxRows   *)
(* rows.                                                                   *)

\* every (dtype, len, non-missing count, nunique) a series can have
SeriesShapes ==
    { MkSeries("col", d, n, k, u, TRUE) :
        << d, n, k, u >> \in
            { q \in {"numeric", "object"} \X (0..MaxRows) \X (0..MaxRows) \X (0..MaxRows) :
                /\ q[3] <= q[2]
                /\ q[4] <= q[3]
                /\ (q[3] > 0 => q[4] > 0) } }

InitInfer ==
    /\ current_df = NoneDF
    /\ current_columns_metadata = NoneMeta
    /\ pc = [t \in Threads |-> "idle"]
    /\ frame = [t \in Threads |-> NoFrame]
    /\ resp = [t \in Threads |-> NoResponse]
    /\ ever_ok = FALSE
    /\ series_in \in SeriesShapes
    /\ infer_out = None
    /\ chart_in = None
    /\ cols_in = << >>
    /\ match_out = NoMatch
    /\ match_prev = NoMatch
    /\ open_figures = 0

InferCall ==
    /\ infer_out = None
    /\ infer_out' = infer_column_type(series_in)
    /\ UNCHANGED << serverVars, series_in, chart_in, cols_in, match_out, match_prev >>

SpecInfer == InitInfer /\ [][InferCall]_vars

-----------------------------------------------------------------------------
(* check_chart_compatibility called directly, on every column list of at   *)
(* most MaxCols columns, and again after a column is added.                *)

ColumnNamePool == {"Category", "Segment", "Value", "index"}

ColumnMetas ==
    { ColumnMeta(n, ty, [count |-> 0, jsonable |-> TRUE]) :
        n \in ColumnNamePool, ty \in {"numeric", "categorical"} }

\* pandas keeps column names unique
DistinctNames(cols) ==
    \A i, j \in 1..Len(cols) : i # j => cols[i].name # cols[j].name

MetaLists ==
    { cols \in UNION { [1..n -> ColumnMetas] : n \in 0..MaxCols } : DistinctNames(cols) }

\* cols with col put at position pos
InsertAt(cols, pos, col) ==
    SubSeq(cols, 1, pos - 1) \o << col >> \o SubSeq(cols, pos, Len(cols))

InitMatch ==
    /\ current_df = NoneDF
    /\ current_columns_metadata = NoneMeta
    /\ pc = [t \in Threads |-> "idle"]
    /\ frame = [t \in Threads |-> NoFrame]
    /\ resp = [t \in Threads |-> NoResponse]
    /\ ever_ok = FALSE
    /\ series_in = MkSeries("", "object", 0, 0, 0, TRUE)
    /\ infer_out = None
    /\ chart_in \in ChartTypeIds \cup {"unknown_type"}
    /\ cols_in \in MetaLists
    /\ match_out = NoMatch
    /\ match_prev = NoMatch
    /\ open_figures = 0

MatchCall ==
    /\ match_out = NoMatch
    /\ match_out' = check_chart_compatibility(chart_in, cols_in)
    /\ UNCHANGED << serverVars, series_in, infer_out, chart_in, cols_in, match_prev >>

\* the same chart type asked again after one more column joined the list
AddColumn ==
    /\ match_out # NoMatch
    /\ Len(cols_in) < MaxCols
    /\ \E pos \in 1..(Len(cols_in) + 1), col \in ColumnMetas :
         /\ DistinctNames(InsertAt(cols_in, pos, col))
         /\ cols_in' = InsertAt(cols_in, pos, col)
         /\ match_prev' = match_out
         /\ match_out' = check_chart_compatibility(chart_in, cols_in')
    /\ UNCHANGED << serverVars, series_in, infer_out, chart_in >>

NextMatch == MatchCall \/ AddColumn

SpecMatch == InitMatch /\ [][NextMatch]_vars

-----------------------------------------------------------------------------
(* Properties of the matcher (SpecMatch).                                  *)

MatcherCalled == match_out # NoMatch

\* how many columns of the list have the given inferred type
CountOfType(cols, type) == Cardinality({ i \in 1..Len(cols) : cols[i].type = type })

\* the non-optional role counts of the registry table
RoleCountsMet(chart_type, cols) ==
    LET n == CountOfType(cols, "numeric")
        c == CountOfType(cols, "categorical")
    IN  CASE chart_type \in {"bar", "pie"} -> c >= 1 /\ n >= 1
          [] chart_type \in {"line", "histogram", "boxplot", "violin", "area"} -> n >= 1
          [] chart_type = "scatter" -> n >= 2
          [] chart_type \in {"heatmap", "stacked_bar"} -> c >= 2 /\ n >= 1
          [] OTHER -> FALSE

\* C1: the matcher answers compatible exactly when the chart type is one of
\* the ten registry ids and the numbers of numeric and categorical columns
\* meet that type's non-optional role counts; an id outside the registry is
\* never compatible.
C1_CompatibleIffRoleCountsMet ==
    MatcherCalled =>
        (match_out.compatible <=>
            (chart_in \in ChartTypeIds /\ RoleCountsMet(chart_in, cols_in)))

\* a heatmap request found compatible on a list with exactly the two
\* categorical columns it needs
C1_Witness ==
    /\ MatcherCalled
    /\ chart_in = "heatmap"
    /\ match_out.compatible
    /\ CountOfType(cols_in, "categorical") = 2

\* the roles of each chart type, in the order of the registry table:
\* the binding field, the required type, and whether the role is optional
Role(field, type, optional) == [field |-> field, type |-> type, optional |-> optional]

RolesOf(chart_type) ==
    CASE chart_type = "bar" ->
            << Role("x_column", "categorical", FALSE), Role("y_column", "numeric", FALSE) >>
      [] chart_type = "line" ->
            << Role("y_column", "numeric", FALSE), Role("x_column", "categorical", TRUE) >>
      [] chart_type = "scatter" ->
            << Role("x_column", "numeric", FALSE), Role("y_column", "numeric", FALSE) >>
      [] chart_type = "histogram" ->
            << Role("x_column", "numeric", FALSE) >>
      [] chart_type = "boxplot" ->
            << Role("y_column", "numeric", FALSE), Role("group_column", "categorical", TRUE) >>
      [] chart_type = "heatmap" ->
            << Role("x_column", "categorical", FALSE), Role("y_column", "categorical", FALSE),
               Role("group_column", "numeric", FALSE) >>
      [] chart_type = "pie" ->
            << Role("x_column", "categorical", FALSE), Role("y_column", "numeric", FALSE) >>
      [] chart_type = "violin" ->
            << Role("y_column", "numeric", FALSE), Role("group_column", "categorical", TRUE) >>
      [] chart_type = "area" ->
            << Role("y_column", "numeric", FALSE), Role("x_column", "categorical", TRUE) >>
      [] chart_type = "stacked_bar" ->
            << Role("x_column", "categorical", FALSE), Role("group_column", "categorical", FALSE),
               Role("y_column", "numeric", FALSE) >>
      [] OTHER -> << >>

BindingFields == {"x_column", "y_column", "group_column"}

\* the type the role of a binding field requires; "no role" when the chart
\* type has no role for the field
RoleType(chart_type, field) ==
    LET roles == RolesOf(chart_type)
        at == { i \in 1..Len(roles) : roles[i].field = field }
    IN  IF at = {} THEN "no role" ELSE roles[CHOOSE i \in at : TRUE].type

\* value names a column of the list whose inferred type is type
NamesColumnOfType(cols, value, type) ==
    \E i \in 1..Len(cols) : cols[i].name = value /\ cols[i].type = type

\* x_column holds the literal 'index' that line and area charts take for
\* "plot against the row order" when the list has no categorical column
IsIndexSentinel(chart_type, cols, field, value) ==
    /\ field = "x_column"
    /\ value = "index"
    /\ chart_type \in {"line", "area"}
    /\ CountOfType(cols, "categorical") = 0

\* C2, as claimed: every non-null field of the suggested binding names a
\* column of the input metadata whose inferred type is the type its role
\* requires.
C2_SuggestedFieldsNameTypedColumns ==
    MatcherCalled =>
        \A f \in BindingFields :
            match_out.suggestions[f] # None =>
                NamesColumnOfType(cols_in, match_out.suggestions[f], RoleType(chart_in, f))

\* C2, amended: every non-null field of the suggested binding names a column
\* of the input metadata whose inferred type is the type its role requires,
\* except that x_column of a line or area chart is the literal 'index' when
\* the metadata holds no categorical column.
C2_SuggestedFieldsNameTypedColumnsOrIndex ==
    MatcherCalled =>
        \A f \in BindingFields :
            match_out.suggestions[f] # None =>
                \/ IsIndexSentinel(chart_in, cols_in, f, match_out.suggestions[f])
                \/ NamesColumnOfType(cols_in, match_out.suggestions[f], RoleType(chart_in, f))

\* a stacked bar binding with its three fields filled from a three-column list
C2_Witness ==
    /\ MatcherCalled
    /\ chart_in = "stacked_bar"
    /\ match_out.compatible
    /\ \A f \in BindingFields : match_out.suggestions[f] # None

RECURSIVE GreedyFill(_, _, _, _, _)
\* roles filled in order, each with the earliest column of its type that no
\* earlier role took; an optional role with no such column gets `fallback`
GreedyFill(roles, cols, taken, binding, fallback) ==
    IF roles = << >>
    THEN binding
    ELSE LET r == Head(roles)
             free == { i \in 1..Len(cols) : cols[i].type = r.type /\ i \notin taken }
             first == CHOOSE i \in free : \A j \in free : i <= j
         IN  IF free = {}
             THEN GreedyFill(Tail(roles), cols, taken,
                             [binding EXCEPT ![r.field] = fallback[r.field]], fallback)
             ELSE GreedyFill(Tail(roles), cols, taken \cup {first},
                             [binding EXCEPT ![r.field] = cols[first].name], fallback)

\* what an unfilled optional role holds, as claimed: null
NullFallback == NoSuggestions

\* what an unfilled optional role holds in the code: 'index' for the x role
\* of line and area, null otherwise
IndexFallback == [NoSuggestions EXCEPT !.x_column = "index"]

\* C10, as claimed: in a compatible result each role holds the earliest
\* column of its type not bound to another role, and an optional role with
\* no spare column is null.
C10_FirstAvailableNoReuseNullOptional ==
    (MatcherCalled /\ match_out.compatible) =>
        match_out.suggestions =
            GreedyFill(RolesOf(chart_in), cols_in, {}, NoSuggestions, NullFallback)

\* C10, amended: in a compatible result each role holds the earliest column
\* of its type not bound to another role, so no column is bound twice; an
\* optional role with no spare column is null, except the x role of line and
\* area, which then holds the literal 'index'.
C10_FirstAvailableNoReuseIndexOptional ==
    (MatcherCalled /\ match_out.compatible) =>
        /\ match_out.suggestions =
               GreedyFill(RolesOf(chart_in), cols_in, {}, NoSuggestions, IndexFallback)
        /\ \A f, g \in BindingFields :
               (/\ f # g
                /\ match_out.suggestions[f] # None
                /\ match_out.suggestions[g] # None
                /\ ~IsIndexSentinel(chart_in, cols_in, f, match_out.suggestions[f])
                /\ ~IsIndexSentinel(chart_in, cols_in, g, match_out.suggestions[g]))
               => match_out.suggestions[f] # match_out.suggestions[g]

\* a heatmap binding whose y axis is the second categorical column, behind a
\* numeric column that sits between the two
C10_Witness ==
    /\ MatcherCalled
    /\ chart_in = "heatmap"
    /\ match_out.compatible
    /\ Len(cols_in) = 3
    /\ cols_in[2].type = "numeric"
    /\ match_out.suggestions.y_column = cols_in[3].name

-----------------------------------------------------------------------------
(* Properties of infer_column_type (SpecInfer).                            *)

\* C7: on a column whose present values are all numeric the answer is
\* CATEGORICAL exactly when distinct_non_missing / non_missing < 0.05 (the
\* missing values left out of the denominator) and the distinct non-missing
\* count is below 10, and NUMERIC otherwise; on a column with a non-numeric
\* value it is CATEGORICAL.  Stated for the columns with a present value,
\* where the ratio is defined.
C7_CategoricalIffLowRatioOfPresentValues ==
    (infer_out # None /\ series_in.nonnull > 0) =>
        IF is_numeric_dtype(series_in)
        THEN /\ infer_out \in {"categorical", "numeric"}
             /\ infer_out = "categorical" <=>
                    (/\ 20 * series_in.nunique < series_in.nonnull
                     /\ series_in.nunique < 10)
        ELSE infer_out = "categorical"

\* C12: infer_column_type is total: on every column it returns NUMERIC or
\* CATEGORICAL and never raises, and on every column with no present value
\* (all values missing, or zero rows) it returns the same classification,
\* the one the code gives to an all-missing column: CATEGORICAL.
C12_InferenceTotalWithFixedFallback ==
    infer_out # None =>
        /\ infer_out \in {"numeric", "categorical"}
        /\ series_in.nonnull = 0 => infer_out = "categorical"

-----------------------------------------------------------------------------
(* Properties of the render routine (Spec).                                *)

\* C11: the render routine closes every figure it opens on every exit path:
\* after any sequence of generate_chart_matplotlib calls, returned or
\* raised, no figure is left open.
C11_NoFigureLeftOpen == open_figures = 0

-----------------------------------------------------------------------------
(* Properties of the server taking one request at a time (Spec).           *)

\* the answer of thread t is ready
Done(t) == pc[t] = "done"

\* an answer that reports an error
IsError(response) == response.status >= 400 /\ ~response.success

\* C3: a compatibility or render request made while no upload has ever
\* succeeded reaches neither the matcher nor the render routine and ends in
\* an error answer.
C3_NoDatasetRequestsEndInError ==
    \A t \in Threads :
        (frame[t].handler \in Readers /\ ~ever_ok) =>
            /\ ~frame[t].matcher_called
            /\ ~frame[t].renderer_called
            /\ Done(t) => IsError(resp[t])

\* C4: when a handler answers with an error, current_df and
\* current_columns_metadata hold the values they held when it was entered.
C4_ErrorLeavesGlobalsUntouched ==
    \A t \in Threads :
        (Done(t) /\ IsError(resp[t])) =>
            /\ current_df = frame[t].pre_df
            /\ current_columns_metadata = frame[t].pre_meta

\* the non-null fields of the binding of a request, with their values
BoundFields(request) ==
    { f \in BindingFields : request[f] # None }

\* C5: whenever the render routine is entered, every non-null field of the
\* binding names a column of the DataFrame handed to it.  The literal
\* 'index' in x_column counts as present for line and area charts, which
\* plot it as the row order.
C5_RenderedBindingNamesColumns ==
    \A t \in Threads :
        frame[t].renderer_called =>
            \A f \in BoundFields(frame[t].request) :
                \/ frame[t].request[f] \in ColumnNames(frame[t].render_df)
                \/ /\ f = "x_column"
                   /\ frame[t].request[f] = "index"
                   /\ frame[t].request.chart_type \in {"line", "area"}

\* the matcher accepted the chart type of the request thread t serves
Accepted(t) ==
    /\ frame[t].handler = "generate_chart"
    /\ frame[t].matcher_called
    /\ ~frame[t].seen_meta.is_none
    /\ check_chart_compatibility(frame[t].request.chart_type,
                                 frame[t].seen_meta.cols).compatible

-----------------------------------------------------------------------------
(* Properties of the server with interleaved requests (SpecConc).          *)

\* the DataFrames a render request has read so far
DataFramesRead(t) ==
    frame[t].checked_dfs \cup
        (IF frame[t].renderer_called THEN {frame[t].render_df} ELSE {})

\* C9: a render request never works on column metadata of one upload
\* together with the rows of another, and the DataFrame its column checks
\* read is the DataFrame it renders.
C9_ReaderSeesOneDataset ==
    \A t \in Threads :
        frame[t].handler = "generate_chart" =>
            /\ \A df \in DataFramesRead(t) :
                   frame[t].seen_meta = Metadata(analyze_dataframe(df).meta)
            /\ frame[t].renderer_called =>
                   frame[t].checked_dfs \subseteq {frame[t].render_df}

=============================================================================
